---- MODULE Spec2Model ----
(***************************************************************************)
(* NDVI preprocessing notebook (src/NDVI.ipynb): filename parsers, tile    *)
(* merger, band extractor/writer, region orchestrator and parallel driver. *)
(*                                                                         *)
(* Python strings are sequences of one-character strings.  Optional ints   *)
(* (a regex miss returns None) are modelled with None == -1; parsed years  *)
(* and days come from \d runs and are never negative.                      *)
(***************************************************************************)
EXTENDS Integers, Sequences, FiniteSets, TLC

VARIABLES
    p_filename,     \* extract_year_from_filename: the argument
    p_result,       \* extract_year_from_filename: [done, value]
    pb,             \* process_and_save_bands: its arguments, locals and files
    mg,             \* merge_tiff_files: its argument, locals and open handles
    target_regions, \* process_all_regions_for_ndvi: the region list
    n_jobs,         \* process_all_regions_for_ndvi: the pool size
    tasks,          \* one process_region task per entry of target_regions
    driver,         \* the Parallel(...) call: "waiting", "returned", "raised"
    faults          \* I/O failures the environment has injected so far

yearVars == <<p_filename, p_result>>
runVars == <<target_regions, n_jobs, tasks, driver, faults>>
vars == <<p_filename, p_result, pb, mg, target_regions, n_jobs, tasks, driver,
          faults>>

----------------------------------------------------------------------------
(* Bounds of the model *)

MaxChunks == 4      \* filenames are built from at most this many chunks
MaxBands == 3       \* bands of a merged raster, labels of a label list
MaxTiles == 2       \* tiles passed to one call of merge_tiff_files
MaxRegions == 2     \* entries of target_regions
MaxFaults == 1      \* I/O failures injected into one parallel run

----------------------------------------------------------------------------
(* Characters and string helpers *)

None == -1

Digits == <<"0", "1", "2", "3", "4", "5", "6", "7", "8", "9">>

IsDigit(c) == \E k \in 1..10 : Digits[k] = c

DigitVal(c) == (CHOOSE k \in 1..10 : Digits[k] = c) - 1

\* int(s) for a non-empty run of decimal digits
RECURSIVE ParseInt(_)
ParseInt(s) ==
    IF Len(s) = 0 THEN 0
    ELSE 10 * ParseInt(SubSeq(s, 1, Len(s) - 1)) + DigitVal(s[Len(s)])

\* s[i:i+len(t)] == t
MatchesAt(s, i, t) ==
    /\ i + Len(t) - 1 <= Len(s)
    /\ \A k \in 1..Len(t) : s[i + k - 1] = t[k]

endswith(s, suffix) ==
    /\ Len(suffix) <= Len(s)
    /\ MatchesAt(s, Len(s) - Len(suffix) + 1, suffix)

----------------------------------------------------------------------------
(* extract_year_from_filename: re.search(r'_(\d{4})(?:[\.\-_]|$)', filename) *)

YearSeparators == {".", "-", "_"}

\* '$' without re.MULTILINE: at the end of the string, or just before a
\* newline that is the last character of the string.
AtDollar(s, j) ==
    \/ j = Len(s) + 1
    \/ j = Len(s) /\ s[j] = "\n"

\* faulty variant: the pattern without its trailing (?:[\.\-_]|$) group
YearPatternAt_NoBoundary(s, i) ==
    /\ i + 4 <= Len(s)
    /\ s[i] = "_"
    /\ \A k \in 1..4 : IsDigit(s[i + k])

\* the pattern matched with its first character at position i
YearPatternAt(s, i) ==
    /\ i + 4 <= Len(s)
    /\ s[i] = "_"
    /\ \A k \in 1..4 : IsDigit(s[i + k])
    /\ \/ i + 5 <= Len(s) /\ s[i + 5] \in YearSeparators
       \/ AtDollar(s, i + 5)

\* re.search tries the start positions from left to right
RECURSIVE YearSearchFrom(_, _)
YearSearchFrom(s, i) ==
    IF i > Len(s) THEN 0
    ELSE IF YearPatternAt(s, i) THEN i
    ELSE YearSearchFrom(s, i + 1)

extract_year_from_filename(filename) ==
    LET m == YearSearchFrom(filename, 1)
    IN  IF m # 0 THEN ParseInt(SubSeq(filename, m + 1, m + 4)) ELSE None

----------------------------------------------------------------------------
(* extract_doy_from_band_name: re.search(r'Syn_VI_fitted(\d+)', band_name) *)

Marker == <<"S", "y", "n", "_", "V", "I", "_", "f", "i", "t", "t", "e", "d">>

\* the pattern matched with its first character at position i: the marker
\* and at least one digit
DoyPatternAt(s, i) ==
    /\ MatchesAt(s, i, Marker)
    /\ i + Len(Marker) <= Len(s)
    /\ IsDigit(s[i + Len(Marker)])

RECURSIVE DoySearchFrom(_, _)
DoySearchFrom(s, i) ==
    IF i > Len(s) THEN 0
    ELSE IF DoyPatternAt(s, i) THEN i
    ELSE DoySearchFrom(s, i + 1)

\* \d+ is greedy: the last position of the digit run that starts at j
RECURSIVE DigitRunEnd(_, _)
DigitRunEnd(s, j) ==
    IF j + 1 <= Len(s) /\ IsDigit(s[j + 1]) THEN DigitRunEnd(s, j + 1) ELSE j

extract_doy_from_band_name(band_name) ==
    LET m == DoySearchFrom(band_name, 1)
        d == m + Len(Marker)
    IN  IF m # 0 THEN ParseInt(SubSeq(band_name, d, DigitRunEnd(band_name, d)))
        ELSE None

----------------------------------------------------------------------------
(* String formatting: str(int) and the {doy:03d} field *)

RECURSIVE IntToStr(_)
IntToStr(n) ==
    IF n < 10 THEN <<Digits[n + 1]>>
    ELSE IntToStr(n \div 10) \o <<Digits[(n % 10) + 1]>>

RECURSIVE ZeroPad(_, _)
ZeroPad(s, width) == IF Len(s) >= width THEN s ELSE ZeroPad(<<"0">> \o s, width)

Format03d(n) == ZeroPad(IntToStr(n), 3)

\* f"NDVI_{region_name}_{year}_{doy:03d}.tif"
file_name(region_name, year, doy) ==
    <<"N", "D", "V", "I", "_">> \o region_name \o <<"_">> \o IntToStr(year)
        \o <<"_">> \o Format03d(doy) \o <<".", "t", "i", "f">>

----------------------------------------------------------------------------
(* process_and_save_bands: one record holds the call's arguments, its loop *)
(* index and the files it has written so far (name -> data written).       *)

\* rasterio reports the description of a band that has none as None
NoneLabel == <<"<None>">>

\* files[name] := data (rasterio.open(..., "w") truncates an existing file)
Put(files, name, data) ==
    [n \in (DOMAIN files) \cup {name} |-> IF n = name THEN data ELSE files[n]]

BandsCall(region_name, year, band_count, band_descriptions) ==
    [pc |-> "loop", exc |-> "", region_name |-> region_name, year |-> year,
     band_count |-> band_count, band_descriptions |-> band_descriptions,
     band_idx |-> 0, files |-> <<>>]

\* band_descriptions[band_idx] raises IndexError on a short label list, and
\* re.search raises TypeError on a label that is None
BandLabelFault(b) ==
    \/ b.band_idx + 1 > Len(b.band_descriptions)
    \/ b.band_descriptions[b.band_idx + 1] = NoneLabel

CurrentDoy(b) == extract_doy_from_band_name(b.band_descriptions[b.band_idx + 1])

\* the branch the loop takes next
BandsCase(b) ==
    IF b.pc # "loop" THEN "none"
    ELSE IF b.band_idx >= b.band_count THEN "return"
    ELSE IF BandLabelFault(b) THEN "fault"
    ELSE IF CurrentDoy(b) = None THEN "skip"
    ELSE "save"

\* faulty variant: the unresolved label ends the loop (break instead of continue)
bands_break(b) == [b EXCEPT !.band_idx = b.band_count]

\* doy is None: print and continue
bands_continue(b) == [b EXCEPT !.band_idx = @ + 1]

\* the band is written to NDVI_{region}_{year}_{doy:03d}.tif
bands_write(b) ==
    LET name == file_name(b.region_name, b.year, CurrentDoy(b))
    IN  [b EXCEPT !.files = Put(b.files, name,
                                [band |-> b.band_idx, complete |-> TRUE]),
                  !.band_idx = @ + 1]

\* rasterio.open or dest.write raises: the file is untouched (open failed)
\* or left created and incomplete (write failed)
bands_write_fails(b, created) ==
    LET name == file_name(b.region_name, b.year, CurrentDoy(b))
    IN  [b EXCEPT !.files = IF created
                            THEN Put(b.files, name,
                                     [band |-> b.band_idx, complete |-> FALSE])
                            ELSE b.files,
                  !.pc = "raised", !.exc = "IOError"]

bands_fault(b) ==
    [b EXCEPT !.pc = "raised",
              !.exc = IF b.band_idx + 1 > Len(b.band_descriptions)
                      THEN "IndexError" ELSE "TypeError"]

bands_return(b) == [b EXCEPT !.pc = "returned"]

\* every record one step of the call can lead to
BandsSucc(b) ==
    CASE BandsCase(b) = "return" -> {bands_return(b)}
      [] BandsCase(b) = "fault"  -> {bands_fault(b)}
      [] BandsCase(b) = "skip"   -> {bands_continue(b)}
      [] BandsCase(b) = "save"   ->
            {bands_write(b)} \cup {bands_write_fails(b, c) : c \in BOOLEAN}
      [] OTHER -> {}

IdleBands == [pc |-> "idle"]

----------------------------------------------------------------------------
(* The input tree the runs read: <input_root>/<region>/<file>.  Region     *)
(* names and file names are strings; a tile is a [region, name] path.      *)

TIF == <<".", "t", "i", "f">>
TXT == <<".", "t", "x", "t">>
Y2020 == <<"_", "2", "0", "2", "0">>
Y2021 == <<"_", "2", "0", "2", "1">>
Y0000 == <<"_", "0", "0", "0", "0">>

RegionA == <<"A">>
RegionB == <<"B">>
RegionC == <<"C">>
RegionD == <<"D">>

RegionNames == {RegionA, RegionB, RegionC, RegionD}

\* os.path.isdir(os.path.join(base_input_dir, region_name)): C is a file
isdir(region_name) == region_name \in {RegionA, RegionB, RegionD}

\* the entries os.listdir returns for a region directory (in any order)
DirEntries(region_name) ==
    CASE region_name = RegionA ->
            { <<"a">> \o Y2020 \o TIF, <<"a">> \o Y2021 \o TIF }
      [] region_name = RegionB ->
            { <<"b">> \o Y2020 \o TIF, <<"c">> \o Y2020 \o TIF,
              <<"z">> \o Y0000 \o TIF, <<"c">> \o TIF,
              <<"c">> \o Y2020 \o TXT }
      [] region_name = RegionD ->
            { <<"d">> \o Y2020 \o TXT, <<"d">> \o TIF }
      [] OTHER -> {}

\* os.path.join(region_path, filename)
TilePath(region_name, filename) == [region |-> region_name, name |-> filename]

L001 == Marker \o <<"0", "0", "1">>
L1 == Marker \o <<"1">>
L045 == Marker \o <<"0", "4", "5">>
LBad == <<"b", "a", "n", "d">>

\* src.descriptions of a tile: one label per band
descriptions(tile) ==
    CASE tile.name = <<"a">> \o Y2020 \o TIF -> <<L001, L045>>
      [] tile.name = <<"a">> \o Y2021 \o TIF -> <<LBad>>
      [] tile.name = <<"b">> \o Y2020 \o TIF -> <<L001, L1>>
      [] tile.name = <<"c">> \o Y2020 \o TIF -> <<L001, L1>>
      [] OTHER -> <<L001>>

----------------------------------------------------------------------------
(* merge_tiff_files: one record holds the call's argument, its locals, the *)
(* handles that are open (positions in src_files_to_mosaic) and the number *)
(* of calls of rasterio.merge.merge.                                       *)

NoDescriptions == << <<"<unset>">> >>       \* band_descriptions = None

MergeCall(tiff_files) ==
    [pc |-> "check", exc |-> "", tiff_files |-> tiff_files,
     src_files_to_mosaic |-> <<>>, open |-> {},
     band_descriptions |-> NoDescriptions, mosaic_calls |-> 0]

\* faulty variant: the length check is missing
merge_check_unguarded(m) == [m EXCEPT !.pc = "open"]

\* if len(tiff_files) == 0: raise ValueError("No TIFF files to merge.")
merge_check(m) ==
    IF Len(m.tiff_files) = 0
    THEN [m EXCEPT !.pc = "raised", !.exc = "ValueError"]
    ELSE [m EXCEPT !.pc = "open"]

\* src = rasterio.open(tif_file); src_files_to_mosaic.append(src)
merge_open(m) ==
    LET k == Len(m.src_files_to_mosaic) + 1
        tile == m.tiff_files[k]
    IN  [m EXCEPT !.src_files_to_mosaic = Append(@, tile),
                  !.open = @ \cup {k},
                  !.band_descriptions =
                      IF @ = NoDescriptions THEN descriptions(tile) ELSE @]

\* rasterio.open raises: the exception leaves the function
merge_open_fails(m) == [m EXCEPT !.pc = "raised", !.exc = "IOError"]

\* mosaic, out_trans = merge(src_files_to_mosaic); out_meta = src[0].meta
merge_mosaic(m) ==
    IF Len(m.src_files_to_mosaic) = 0
    THEN [m EXCEPT !.pc = "raised", !.exc = "IndexError",
                   !.mosaic_calls = @ + 1]
    ELSE [m EXCEPT !.pc = "close", !.mosaic_calls = @ + 1]

\* merge raises: the exception leaves the function
merge_mosaic_fails(m) ==
    [m EXCEPT !.pc = "raised", !.exc = "MergeError", !.mosaic_calls = @ + 1]

\* for src in src_files_to_mosaic: src.close()  (one handle per step)
merge_close(m) ==
    LET k == CHOOSE k \in m.open : \A j \in m.open : k <= j
    IN  [m EXCEPT !.open = @ \ {k}]

merge_return(m) == [m EXCEPT !.pc = "returned"]

\* the step the call takes next
MergeCase(m) ==
    IF m.pc = "check" THEN "check"
    ELSE IF m.pc = "open"
         THEN IF Len(m.src_files_to_mosaic) < Len(m.tiff_files)
              THEN "open" ELSE "mosaic"
    ELSE IF m.pc = "close"
         THEN IF m.open # {} THEN "close" ELSE "return"
    ELSE "none"

\* every record one step of the call can lead to
MergeSucc(m) ==
    CASE MergeCase(m) = "check"  -> {merge_check(m)}
      [] MergeCase(m) = "open"   -> {merge_open(m), merge_open_fails(m)}
      [] MergeCase(m) = "mosaic" -> {merge_mosaic(m), merge_mosaic_fails(m)}
      [] MergeCase(m) = "close"  -> {merge_close(m)}
      [] MergeCase(m) = "return" -> {merge_return(m)}
      [] OTHER -> {}

\* the records in which a call that starts in one of S can end
RECURSIVE MergeRunFrom(_)
MergeRunFrom(S) ==
    LET next == UNION { IF MergeSucc(m) = {} THEN {m} ELSE MergeSucc(m) : m \in S }
    IN  IF next = S THEN S ELSE MergeRunFrom(next)

MergeRun(tiff_files) == MergeRunFrom({MergeCall(tiff_files)})

\* mosaic.shape[0]: the merged raster has the bands of the first tile
MosaicBandCount(m) == Len(descriptions(m.src_files_to_mosaic[1]))

IdleMerge == [pc |-> "idle"]

----------------------------------------------------------------------------
(* process_all_regions_for_ndvi.process_region: one record per task holds  *)
(* its position, tiff_files_by_year (a dict, kept in insertion order), the *)
(* output directories and files it has created, and the calls it made of   *)
(* process_ndvi_for_region.                                                *)

\* faulty variant: the region is missing from the output path
output_dir_without_region(region_name, year) ==
    [region |-> <<>>, sub |-> "preprocessed", year |-> IntToStr(year)]

\* os.path.join(base_output_dir, region_name, 'preprocessed', str(year))
output_dir(region_name, year) ==
    [region |-> region_name, sub |-> "preprocessed", year |-> IntToStr(year)]

\* os.path.join(output_dir, file_name)
output_file(dir, name) == [dir |-> dir, name |-> name]

\* `if year:` is false for None and for 0
Truthy(year) == year # None /\ year # 0

\* tiff_files_by_year.setdefault(year, []).append(path)
setdefault_append(groups, year, path) ==
    IF \E k \in 1..Len(groups) : groups[k].year = year
    THEN [k \in 1..Len(groups) |->
            IF groups[k].year = year
            THEN [groups[k] EXCEPT !.tiff_files = Append(@, path)]
            ELSE groups[k]]
    ELSE Append(groups, [year |-> year, tiff_files |-> <<path>>])

\* faulty variant: the year's list is created before the extension is tested
scan_file_setdefault_first(groups, region_name, filename) ==
    LET year == extract_year_from_filename(filename)
    IN  IF ~Truthy(year) THEN groups
        ELSE IF endswith(filename, TIF)
             THEN setdefault_append(groups, year, TilePath(region_name, filename))
        ELSE IF \E k \in 1..Len(groups) : groups[k].year = year THEN groups
        ELSE Append(groups, [year |-> year, tiff_files |-> <<>>])

\* the body of `for filename in os.listdir(region_path)`
scan_file(groups, region_name, filename) ==
    IF endswith(filename, TIF)
    THEN LET year == extract_year_from_filename(filename)
         IN  IF Truthy(year)
             THEN setdefault_append(groups, year, TilePath(region_name, filename))
             ELSE groups
    ELSE groups

RECURSIVE scan_listing(_, _, _)
scan_listing(groups, region_name, listing) ==
    IF Len(listing) = 0 THEN groups
    ELSE scan_listing(scan_file(groups, region_name, Head(listing)),
                      region_name, Tail(listing))

\* os.listdir returns the entries in arbitrary order
Listings(region_name) ==
    LET E == DirEntries(region_name)
    IN  { l \in [1..Cardinality(E) -> E] :
            \A i, j \in 1..Cardinality(E) : i # j => l[i] # l[j] }

NewTask(region_name) ==
    [pc |-> "pending", exc |-> "", region_name |-> region_name,
     groups |-> <<>>, gi |-> 0, dirs |-> {}, files |-> <<>>,
     merges |-> <<>>, bands |-> IdleBands]

\* the loop over tiff_files_by_year.items() reaches its next pair, or ends
\* and process_region returns
next_unit(t) ==
    IF t.gi + 1 > Len(t.groups)
    THEN [t EXCEPT !.pc = "done", !.gi = @ + 1, !.bands = IdleBands]
    ELSE [t EXCEPT !.pc = "loop", !.gi = @ + 1, !.bands = IdleBands]

\* faulty variant: the failure of a (region, year) unit is caught and the loop goes
\* on with the next year
region_catch(t, exc) == [next_unit(t) EXCEPT !.exc = exc]

\* an exception leaves process_region: nothing catches it
region_raise(t, exc) == [t EXCEPT !.pc = "failed", !.exc = exc]

\* tiff_files_by_year after the listing loop, for every order of the listing
GroupResults ==
    [r \in RegionNames |-> { scan_listing(<<>>, r, l) : l \in Listings(r) }]

\* lines 139-150: the isdir test and the grouping of the listing
region_scan(t) ==
    IF ~isdir(t.region_name) THEN {[t EXCEPT !.pc = "done"]}
    ELSE { next_unit([t EXCEPT !.groups = g]) : g \in GroupResults[t.region_name] }

\* lines 152-156 up to the call of process_and_save_bands: the output
\* directory is created, then process_ndvi_for_region merges the tiles
region_unit(t) ==
    LET g == t.groups[t.gi]
        made == [t EXCEPT !.dirs = @ \cup {output_dir(t.region_name, g.year)},
                          !.merges = Append(@, g)]
    IN  {region_raise(t, "OSError")}
        \cup { IF m.pc = "raised" THEN region_raise(made, m.exc)
               ELSE LET b == BandsCall(t.region_name, g.year,
                                       MosaicBandCount(m), m.band_descriptions)
                    IN  IF BandsCase(b) = "return" THEN next_unit(made)
                        ELSE [made EXCEPT !.pc = "bands", !.bands = b] :
               m \in MergeRun(g.tiff_files) }

\* the files of the unit's directory after a step of process_and_save_bands
unit_files(t, b) ==
    LET dir == output_dir(t.region_name, t.groups[t.gi].year)
        new == { output_file(dir, n) : n \in DOMAIN b.files }
    IN  [f \in (DOMAIN t.files) \cup new |->
            IF f \in new THEN b.files[f.name] ELSE t.files[f]]

\* one iteration of the loop of process_and_save_bands, then line 132 and
\* the next year
region_band(t) ==
    { LET wrote == [t EXCEPT !.files = unit_files(t, b)]
      IN  IF b.pc = "raised" THEN region_raise([wrote EXCEPT !.bands = b], b.exc)
          ELSE IF BandsCase(b) = "return" THEN next_unit(wrote)
          ELSE [wrote EXCEPT !.bands = b] :
      b \in BandsSucc(t.bands) }

----------------------------------------------------------------------------
(* process_all_regions_for_ndvi: Parallel(n_jobs)(delayed(process_region)  *)
(* (region) for region in target_regions).  joblib hands the tasks to at   *)
(* most n_jobs workers in list order, collects the results, and when a     *)
(* task raises it aborts the pool (tasks not yet started are dropped, the  *)
(* workers of running tasks are terminated) and re-raises in the caller.   *)

Running == {"scan", "loop", "bands"}

\* n_jobs=5, the default pool size
DefaultJobs == 5

\* the exceptions that come from the environment (an I/O failure), not from
\* the code's own checks
EnvFaults == {"OSError", "IOError", "MergeError"}

\* task i moves to t; an I/O failure counts against the fault budget
TaskMove(i, t) ==
    /\ tasks' = [tasks EXCEPT ![i] = t]
    /\ IF t.pc = "failed" /\ t.exc \in EnvFaults
       THEN faults < MaxFaults /\ faults' = faults + 1
       ELSE faults' = faults

TaskIds == 1..Len(tasks)

\* a worker takes the next task of the list
Dispatch(i) ==
    /\ driver = "waiting"
    /\ tasks[i].pc = "pending"
    /\ \A j \in 1..(i - 1) : tasks[j].pc # "pending"
    /\ Cardinality({ j \in TaskIds : tasks[j].pc \in Running }) < n_jobs
    /\ n_jobs = 1 => \A j \in TaskIds : tasks[j].pc # "failed"
    /\ tasks' = [tasks EXCEPT ![i].pc = "scan"]
    /\ UNCHANGED <<yearVars, pb, mg, target_regions, n_jobs, driver, faults>>

TaskScan(i) ==
    /\ driver = "waiting"
    /\ tasks[i].pc = "scan"
    /\ \E t \in region_scan(tasks[i]) : TaskMove(i, t)
    /\ UNCHANGED <<yearVars, pb, mg, target_regions, n_jobs, driver>>

TaskUnit(i) ==
    /\ driver = "waiting"
    /\ tasks[i].pc = "loop"
    /\ \E t \in region_unit(tasks[i]) : TaskMove(i, t)
    /\ UNCHANGED <<yearVars, pb, mg, target_regions, n_jobs, driver>>

TaskBand(i) ==
    /\ driver = "waiting"
    /\ tasks[i].pc = "bands"
    /\ \E t \in region_band(tasks[i]) : TaskMove(i, t)
    /\ UNCHANGED <<yearVars, pb, mg, target_regions, n_jobs, driver>>

\* a task has raised: the pool is aborted and the error re-raised
Abort ==
    /\ driver = "waiting"
    /\ \E i \in TaskIds : tasks[i].pc = "failed"
    /\ tasks' = [i \in TaskIds |->
                    IF tasks[i].pc = "pending"
                    THEN [tasks[i] EXCEPT !.pc = "cancelled"]
                    ELSE IF tasks[i].pc \in Running
                    THEN [tasks[i] EXCEPT !.pc = "killed"]
                    ELSE tasks[i]]
    /\ driver' = "raised"
    /\ UNCHANGED <<yearVars, pb, mg, target_regions, n_jobs, faults>>

\* every task has returned: Parallel returns the list of results
Return ==
    /\ driver = "waiting"
    /\ \A i \in TaskIds : tasks[i].pc = "done"
    /\ driver' = "returned"
    /\ UNCHANGED <<yearVars, pb, mg, target_regions, n_jobs, tasks, faults>>

IdleYear ==
    /\ p_filename = <<>>
    /\ p_result = [done |-> TRUE, value |-> None]

IdleRun ==
    /\ target_regions = <<>>
    /\ n_jobs = 1
    /\ tasks = <<>>
    /\ driver = "idle"
    /\ faults = 0

----------------------------------------------------------------------------
(* Specification SpecYear: extract_year_from_filename on bounded filenames *)

YearChunks ==
    { <<"_">>, <<".">>, <<"-">>, <<"a">>, <<"7">>, <<"\n">>,
      <<"2", "0", "2", "0">>, <<"2", "0", "2", "1">> }

RECURSIVE Flatten(_)
Flatten(ss) == IF Len(ss) = 0 THEN <<>> ELSE Head(ss) \o Flatten(Tail(ss))

ChunkSeqs(S, n) == UNION { [1..k -> S] : k \in 0..n }

YearInputs == { Flatten(cs) : cs \in ChunkSeqs(YearChunks, MaxChunks) }

YearInit ==
    /\ p_filename \in YearInputs
    /\ p_result = [done |-> FALSE, value |-> None]
    /\ pb = IdleBands
    /\ mg = IdleMerge
    /\ IdleRun

CallExtractYear ==
    /\ ~p_result.done
    /\ p_result' = [done |-> TRUE,
                    value |-> extract_year_from_filename(p_filename)]
    /\ UNCHANGED <<p_filename, pb, mg, runVars>>

YearNext == CallExtractYear

SpecYear == YearInit /\ [][YearNext]_vars

\* A run "_dddd" at position i, followed by ".", "-", "_" or by the end of
\* the string (the claim's reading of "bounded").
BoundedRunAt(s, i) ==
    /\ i + 4 <= Len(s)
    /\ s[i] = "_"
    /\ \A k \in 1..4 : s[i + k] \in {"0", "1", "2", "3", "4", "5", "6", "7", "8", "9"}
    /\ \/ i + 4 = Len(s)
       \/ s[i + 5] \in {".", "-", "_"}

\* ... or followed by a newline that ends the string
BoundedRunOrFinalNewlineAt(s, i) ==
    \/ BoundedRunAt(s, i)
    \/ /\ i + 5 = Len(s)
       /\ s[i] = "_"
       /\ \A k \in 1..4 : s[i + k] \in {"0", "1", "2", "3", "4", "5", "6", "7", "8", "9"}
       /\ s[i + 5] = "\n"

YearDigitsAt(s, i) ==
    1000 * DigitVal(s[i + 1]) + 100 * DigitVal(s[i + 2])
        + 10 * DigitVal(s[i + 3]) + DigitVal(s[i + 4])

\* C7 (as stated): every bounded run "_dddd" of the filename is the year
\* returned, and a filename with no bounded run (separator ".", "-", "_" or
\* end-of-string) returns None.
C7_YearOfAnyBoundedRun ==
    p_result.done =>
        /\ \A i \in 1..Len(p_filename) :
              BoundedRunAt(p_filename, i) =>
                  p_result.value = YearDigitsAt(p_filename, i)
        /\ (~\E i \in 1..Len(p_filename) : BoundedRunAt(p_filename, i)) =>
              p_result.value = None

\* C7 (amended): extract_year_from_filename returns the year of the leftmost
\* run "_dddd" that is followed by ".", "-", "_", the end of the string or a
\* final newline, and None when the filename has no such run.
C7_YearOfLeftmostBoundedRun ==
    p_result.done =>
        LET runs == { i \in 1..Len(p_filename) :
                        BoundedRunOrFinalNewlineAt(p_filename, i) }
        IN  IF runs = {} THEN p_result.value = None
            ELSE \E i \in runs :
                    /\ \A j \in runs : i <= j
                    /\ p_result.value = YearDigitsAt(p_filename, i)

\* witness: a filename with two bounded runs of different years was parsed
C7_Witness ==
    /\ p_result.done
    /\ \E i, j \in 1..Len(p_filename) :
          /\ i < j
          /\ BoundedRunAt(p_filename, i)
          /\ BoundedRunAt(p_filename, j)
          /\ YearDigitsAt(p_filename, i) # YearDigitsAt(p_filename, j)
          /\ p_result.value = YearDigitsAt(p_filename, i)

----------------------------------------------------------------------------
(* Specification SpecBands: one call of process_and_save_bands *)

BandLabels ==
    { Marker \o <<"0", "0", "1">>,
      Marker \o <<"1">>,
      Marker \o <<"0", "4", "5">>,
      Marker \o <<"_", "7">>,
      <<"x">> \o Marker \o <<"1", "0", "0", "0", "b">>,
      NoneLabel }

BandUnits == { <<(<<"R">>), 2020>>, <<(<<"K", "y", "i", "v">>), 21>> }

BandsInit ==
    /\ \E u \in BandUnits, n \in 0..MaxBands,
          ls \in ChunkSeqs(BandLabels, MaxBands) :
              pb = BandsCall(u[1], u[2], n, ls)
    /\ IdleYear
    /\ mg = IdleMerge
    /\ IdleRun

BandsSkip ==
    /\ BandsCase(pb) = "skip"
    /\ pb' = bands_continue(pb)
    /\ UNCHANGED <<yearVars, mg, runVars>>

BandsSave ==
    /\ BandsCase(pb) = "save"
    /\ pb' = bands_write(pb)
    /\ UNCHANGED <<yearVars, mg, runVars>>

BandsSaveFails ==
    /\ BandsCase(pb) = "save"
    /\ \E created \in BOOLEAN : pb' = bands_write_fails(pb, created)
    /\ UNCHANGED <<yearVars, mg, runVars>>

BandsFault ==
    /\ BandsCase(pb) = "fault"
    /\ pb' = bands_fault(pb)
    /\ UNCHANGED <<yearVars, mg, runVars>>

BandsReturn ==
    /\ BandsCase(pb) = "return"
    /\ pb' = bands_return(pb)
    /\ UNCHANGED <<yearVars, mg, runVars>>

BandsNext ==
    \/ BandsSkip
    \/ BandsSave
    \/ BandsSaveFails
    \/ BandsFault
    \/ BandsReturn

SpecBands == BandsInit /\ [][BandsNext]_vars

\* the bands (0-based) of the call whose label resolves to a day-of-year
ResolvedBands(b) ==
    { k \in 0..(b.band_count - 1) :
        /\ k + 1 <= Len(b.band_descriptions)
        /\ b.band_descriptions[k + 1] # NoneLabel
        /\ extract_doy_from_band_name(b.band_descriptions[k + 1]) # None }

DoyOfBand(b, k) == extract_doy_from_band_name(b.band_descriptions[k + 1])

\* name is NDVI_<region>_<year>_<field>.tif where <field> is doy in decimal,
\* at least three characters long and with no more leading zeros than that
IsOutputNameOf(name, region_name, year, doy) ==
    LET pre == <<"N", "D", "V", "I", "_">> \o region_name \o <<"_">>
                  \o IntToStr(year) \o <<"_">>
        ext == <<".", "t", "i", "f">>
        field == SubSeq(name, Len(pre) + 1, Len(name) - Len(ext))
    IN  /\ Len(name) >= Len(pre) + 3 + Len(ext)
        /\ SubSeq(name, 1, Len(pre)) = pre
        /\ SubSeq(name, Len(name) - Len(ext) + 1, Len(name)) = ext
        /\ \A i \in 1..Len(field) : IsDigit(field[i])
        /\ ParseInt(field) = doy
        /\ (Len(field) > 3 => field[1] # "0")

\* C1: when process_and_save_bands returns, the files it wrote are exactly
\* the names NDVI_R_Y_<doy:03d>.tif of the bands whose label resolves
\* (unresolved bands are skipped, the loop goes on), and each file holds the
\* data of the last band, in band order, that resolves to its day-of-year.
C1_FilesAreResolvedBands ==
    pb.pc = "returned" =>
        /\ \A k \in ResolvedBands(pb) : \E name \in DOMAIN pb.files :
              IsOutputNameOf(name, pb.region_name, pb.year, DoyOfBand(pb, k))
        /\ \A name \in DOMAIN pb.files : \E k \in ResolvedBands(pb) :
              /\ IsOutputNameOf(name, pb.region_name, pb.year, DoyOfBand(pb, k))
              /\ \A j \in ResolvedBands(pb) :
                    DoyOfBand(pb, j) = DoyOfBand(pb, k) => j <= k
              /\ pb.files[name] = [band |-> k, complete |-> TRUE]

\* witness: the call returned after skipping an unresolved band, writing a
\* later band, and overwriting one file with a second band of the same day
C1_Witness ==
    /\ pb.pc = "returned"
    /\ \E i, j, k \in 0..(pb.band_count - 1) :
          /\ i < j /\ j < k
          /\ i \notin ResolvedBands(pb)
          /\ {j, k} \subseteq ResolvedBands(pb)
          /\ DoyOfBand(pb, j) = DoyOfBand(pb, k)
          /\ pb.band_descriptions[j + 1] # pb.band_descriptions[k + 1]
          /\ Cardinality(DOMAIN pb.files) = 1

----------------------------------------------------------------------------
(* Specification SpecMerge: one call of merge_tiff_files *)

MergeTiles ==
    UNION { { TilePath(r, f) : f \in { g \in DirEntries(r) : endswith(g, TIF) } } :
            r \in {RegionA, RegionB} }

MergeInit ==
    /\ \E fs \in ChunkSeqs(MergeTiles, MaxTiles) : mg = MergeCall(fs)
    /\ IdleYear
    /\ pb = IdleBands
    /\ IdleRun

MergeCheck ==
    /\ MergeCase(mg) = "check"
    /\ mg' = merge_check(mg)
    /\ UNCHANGED <<yearVars, pb, runVars>>

MergeOpen ==
    /\ MergeCase(mg) = "open"
    /\ mg' = merge_open(mg)
    /\ UNCHANGED <<yearVars, pb, runVars>>

MergeOpenFails ==
    /\ MergeCase(mg) = "open"
    /\ mg' = merge_open_fails(mg)
    /\ UNCHANGED <<yearVars, pb, runVars>>

MergeMosaic ==
    /\ MergeCase(mg) = "mosaic"
    /\ mg' = merge_mosaic(mg)
    /\ UNCHANGED <<yearVars, pb, runVars>>

MergeMosaicFails ==
    /\ MergeCase(mg) = "mosaic"
    /\ mg' = merge_mosaic_fails(mg)
    /\ UNCHANGED <<yearVars, pb, runVars>>

MergeClose ==
    /\ MergeCase(mg) = "close"
    /\ mg' = merge_close(mg)
    /\ UNCHANGED <<yearVars, pb, runVars>>

MergeReturn ==
    /\ MergeCase(mg) = "return"
    /\ mg' = merge_return(mg)
    /\ UNCHANGED <<yearVars, pb, runVars>>

MergeNext ==
    \/ MergeCheck
    \/ MergeOpen
    \/ MergeOpenFails
    \/ MergeMosaic
    \/ MergeMosaicFails
    \/ MergeClose
    \/ MergeReturn

SpecMerge == MergeInit /\ [][MergeNext]_vars

\* C3: on every exit of merge_tiff_files (return or exception) no tile
\* handle the call opened is still open.
C3_HandlesReleasedOnEveryExit ==
    mg.pc \in {"returned", "raised"} => mg.open = {}

\* C4: merge_tiff_files on an empty tile list raises ValueError before any
\* tile is opened and before the mosaic routine is called; it returns no
\* result and leaves no handle open.
C4_EmptyListIsInputError ==
    (Len(mg.tiff_files) = 0 /\ mg.pc # "check") =>
        /\ mg.pc = "raised"
        /\ mg.exc = "ValueError"
        /\ mg.src_files_to_mosaic = <<>>
        /\ mg.open = {}
        /\ mg.mosaic_calls = 0

\* witness: the call on an empty list has raised
C4_Witness ==
    /\ Len(mg.tiff_files) = 0
    /\ mg.pc = "raised"
    /\ mg.exc = "ValueError"

----------------------------------------------------------------------------
(* Specification Spec: one call of process_all_regions_for_ndvi *)

Init ==
    /\ target_regions \in ChunkSeqs(RegionNames, MaxRegions)
    /\ n_jobs \in {1, DefaultJobs}
    /\ tasks = [i \in 1..Len(target_regions) |-> NewTask(target_regions[i])]
    /\ driver = "waiting"
    /\ faults = 0
    /\ IdleYear
    /\ pb = IdleBands
    /\ mg = IdleMerge

Next ==
    \/ \E i \in TaskIds : Dispatch(i)
    \/ \E i \in TaskIds : TaskScan(i)
    \/ \E i \in TaskIds : TaskUnit(i)
    \/ \E i \in TaskIds : TaskBand(i)
    \/ Abort
    \/ Return

Spec == Init /\ [][Next]_vars

\* the workers keep running their tasks and the caller keeps collecting
FairSpec == Spec /\ WF_vars(Next)

Range(f) == { f[k] : k \in DOMAIN f }

\* the listing loop of task i has run: tiff_files_by_year is complete
Grouped(i) == tasks[i].gi >= 1

\* the tile paths task i put into the group of `year`
GroupOf(i, year) ==
    UNION { Range(tasks[i].groups[k].tiff_files) :
            k \in { n \in 1..Len(tasks[i].groups) : tasks[i].groups[n].year = year } }

\* C2: a failure of one region's task does not cancel sibling tasks: no
\* other task is dropped before it starts or stopped before it completes.
C2_FailureDoesNotCancelSiblings ==
    \A i, j \in TaskIds :
        (i # j /\ tasks[i].pc = "failed") =>
            tasks[j].pc \notin {"cancelled", "killed"}

\* the output directories and files of task i lie under its own region
UnderOwnRegion(i) ==
    /\ \A d \in tasks[i].dirs :
          d.region = tasks[i].region_name /\ d.sub = "preprocessed"
    /\ \A f \in DOMAIN tasks[i].files :
          f.dir.region = tasks[i].region_name /\ f.dir.sub = "preprocessed"

DisjointOutputs(i, j) ==
    /\ tasks[i].dirs \cap tasks[j].dirs = {}
    /\ (DOMAIN tasks[i].files) \cap (DOMAIN tasks[j].files) = {}

\* C5 (as stated): for every region list, any two tasks create and write
\* disjoint sets of output directories and files, each under its own region.
C5_TasksWriteDisjointPaths ==
    \A i, j \in TaskIds :
        i # j => UnderOwnRegion(i) /\ DisjointOutputs(i, j)

\* C5 (amended): any two tasks of different regions create and write
\* disjoint sets of output directories and files, each under its own region.
C5_DistinctRegionsWriteDisjointPaths ==
    \A i, j \in TaskIds :
        (i # j /\ target_regions[i] # target_regions[j]) =>
            UnderOwnRegion(i) /\ DisjointOutputs(i, j)

\* witness: two tasks of different regions have both written a file of the
\* same year
C5_Witness ==
    \E i, j \in TaskIds :
        /\ target_regions[i] # target_regions[j]
        /\ \E f \in DOMAIN tasks[i].files, g \in DOMAIN tasks[j].files :
              f.dir.year = g.dir.year

\* C6: every task of the region list eventually finishes, and the call does
\* not return before every task has finished.
C6_EveryTaskFinishes ==
    /\ <>(\A i \in TaskIds : tasks[i].pc \in {"done", "failed"})
    /\ [](driver = "returned" => \A i \in TaskIds : tasks[i].pc = "done")

\* C8: a file of the region directory is grouped if and only if its name
\* ends in .tif and extract_year_from_filename returns a year for it, it is
\* in the group of that year only, and process_ndvi_for_region is called
\* once per distinct year with tiles of that region and year.
C8_GroupsAreParsedTifFiles ==
    \A i \in TaskIds :
        Grouped(i) =>
            LET r == tasks[i].region_name
                years == { tasks[i].groups[k].year : k \in 1..Len(tasks[i].groups) }
            IN  /\ \A f \in DirEntries(r) :
                      LET y == extract_year_from_filename(f)
                      IN  IF endswith(f, TIF) /\ y # None
                          THEN /\ TilePath(r, f) \in GroupOf(i, y)
                               /\ \A z \in years \ {y} :
                                     TilePath(r, f) \notin GroupOf(i, z)
                          ELSE \A z \in years : TilePath(r, f) \notin GroupOf(i, z)
                /\ \A k, n \in 1..Len(tasks[i].groups) :
                      tasks[i].groups[k].year = tasks[i].groups[n].year => k = n
                /\ \A k \in 1..Len(tasks[i].merges) :
                      /\ tasks[i].merges[k] = tasks[i].groups[k]
                      /\ \A tile \in Range(tasks[i].merges[k].tiff_files) :
                            /\ tile.region = r
                            /\ extract_year_from_filename(tile.name)
                                  = tasks[i].merges[k].year
                /\ tasks[i].pc = "done" => Len(tasks[i].merges) = Cardinality(years)

\* per region, the years some .tif file of the directory parses to
MatchedYears ==
    [r \in RegionNames |->
        { extract_year_from_filename(f) :
            f \in { g \in DirEntries(r) : endswith(g, TIF) } } \ {None}]

HasMatchedTile(region_name, year) == year \in MatchedYears[region_name]

NothingToProcess(region_name) ==
    ~isdir(region_name) \/ MatchedYears[region_name] = {}

\* C9: a region that is not a directory, or whose directory holds no .tif
\* file with a parseable year, gets no output directory, no call of the
\* merger and no error; every output directory is that of a year with at
\* least one matched tile, and the merger is never called on an empty list.
C9_NothingToProcessNoOutput ==
    \A i \in TaskIds :
        /\ NothingToProcess(tasks[i].region_name) =>
              /\ tasks[i].dirs = {}
              /\ DOMAIN tasks[i].files = {}
              /\ tasks[i].merges = <<>>
              /\ tasks[i].exc = ""
              /\ tasks[i].pc \in {"pending", "scan", "done", "cancelled", "killed"}
        /\ \A d \in tasks[i].dirs :
              \E k \in 1..Len(tasks[i].groups) :
                  /\ d = output_dir(tasks[i].region_name, tasks[i].groups[k].year)
                  /\ HasMatchedTile(tasks[i].region_name, tasks[i].groups[k].year)
        /\ \A k \in 1..Len(tasks[i].merges) :
              Len(tasks[i].merges[k].tiff_files) >= 1
        /\ tasks[i].exc # "ValueError"

\* witness: the task of a region that is not a directory and the task of a
\* directory without a matching file have both returned
C9_Witness ==
    \E i, j \in TaskIds :
        /\ ~isdir(tasks[i].region_name)
        /\ tasks[i].pc = "done"
        /\ isdir(tasks[j].region_name)
        /\ DirEntries(tasks[j].region_name) # {}
        /\ NothingToProcess(tasks[j].region_name)
        /\ tasks[j].pc = "done"
        /\ driver = "returned"

\* C10: the units of one region run one after the other and a failure is
\* not caught: once a merge or a write has raised, the task has failed and
\* takes no further step (no later year is processed), and no step of a
\* task removes an output directory or file that exists (no rollback).
C10_FailureStopsRegionNoRollback ==
    [][\A i \in TaskIds :
          /\ tasks[i].exc # "" =>
                /\ tasks[i].pc = "failed"
                /\ tasks'[i] = tasks[i]
          /\ tasks[i].dirs \subseteq tasks'[i].dirs
          /\ (DOMAIN tasks[i].files) \subseteq (DOMAIN tasks'[i].files)
          /\ tasks'[i].merges # tasks[i].merges =>
                /\ tasks[i].bands = IdleBands
                /\ tasks'[i].merges = Append(tasks[i].merges,
                                             tasks[i].groups[tasks[i].gi])
          /\ tasks'[i].gi \in {tasks[i].gi, tasks[i].gi + 1}]_vars

\* witness: a write failed after an earlier band of the same year was
\* written, a later year of the region is still unprocessed, and the error
\* has left the task
C10_Witness ==
    \E i \in TaskIds :
        /\ tasks[i].pc = "failed"
        /\ tasks[i].bands.pc = "raised"
        /\ tasks[i].gi < Len(tasks[i].groups)
        /\ \E f \in DOMAIN tasks[i].files : tasks[i].files[f].complete
        /\ driver = "raised"

====
